---- MODULE Spec2Model ----
(***************************************************************************)
(* A model of SpaceWarp-Remake (src/main.py): the tilemap, the per-room    *)
(* Keys/Buttons/Doors entities, the player, level load (App.start) and the *)
(* per-frame update/draw of a play session.                                *)
(*                                                                         *)
(* Tile codes and tile positions are pairs <<x, y>>.  The tilemap is a     *)
(* window of the pyxel tilemap, its top-left cells, stored as a tuple of   *)
(* rows; cells outside the window read as EMPTY_TILE and writes to them    *)
(* are dropped.                                                            *)
(***************************************************************************)
EXTENDS Integers, Sequences, FiniteSets, TLC

(***************************************************************************)
(* Bounds of the model.                                                    *)
(***************************************************************************)
\* The tilemap window: GridW columns; GridH rows for the levels of the load
\* family, PlayH rows for the levels that are played (their rows below are
\* empty).
GridW == 33
GridH == 17
PlayH == 6
MaxStamps == 3
MaxStarts == 1
MaxRestarts == 2

(***************************************************************************)
(* Constants of the program.                                               *)
(***************************************************************************)
KEYS == {<<7, y>> : y \in 4..6}
BUTTONS == {<<x, 6>> : x \in 4..6}
TOP_DOORS == {<<x, 4>> : x \in 4..6}
BOTTOM_DOORS == {<<x, 5>> : x \in 4..6}
DOORS == TOP_DOORS \cup BOTTOM_DOORS
EMPTY_TILE == <<0, 0>>
END_TILE == <<0, 1>>
SPAWN_TILE == {<<3, 4>>}
FIRES == {<<x, y>> : x \in 0..1, y \in 2..3}
WALLS == {<<x, y>> : x \in 4..7, y \in 0..1} \cup {<<x, y>> : x \in 2..5, y \in 2..3}
COLLIDERS == WALLS \cup DOORS
END_SHIP_TOP_LEFT == <<0, 4>>
END_SHIP == {<<x, y>> : x \in 0..1, y \in 4..5}

MENU == 0
PLAYING == 1
END == 2

ROOM_TILES == 16
TILE_PX == 8
ROOM_PX == 128
MAX_ROOMS == 16
FULL_PRESS == 150
JUMP_TICKS == 12
DOOR_CLOSED == 8

(***************************************************************************)
(* The tilemap: pyxel.tilemaps[difficulty].pget / pset.                    *)
(***************************************************************************)
InGrid(g, x, y) == x >= 0 /\ y >= 0 /\ y < Len(g) /\ x < Len(g[1])

tile_at(g, x, y) == IF InGrid(g, x, y) THEN g[y + 1][x + 1] ELSE EMPTY_TILE

tile_set(g, x, y, t) == IF InGrid(g, x, y) THEN [g EXCEPT ![y + 1][x + 1] = t] ELSE g

\* Integer floor division by a positive number, as Python's // (TLA+'s \div
\* already rounds toward minus infinity).
FloorDiv(a, b) == a \div b

(***************************************************************************)
(* Entities.  A Keys, Buttons or Doors object is a record; the per-room    *)
(* dictionaries self.keys[r], self.buttons[r], self.doors[r] are functions *)
(* from the entity's tile code to the record.                              *)
(***************************************************************************)
Keys(sprite) == [sprite |-> sprite, locations |-> {}, state |-> TRUE]

Buttons(sprite) == [sprite |-> sprite, locations |-> {}, state |-> 0]

Doors(sprite) ==
    [sprite |-> sprite, locations |-> {}, state |-> TRUE, timer |-> 0,
     animation_state |-> DOOR_CLOSED]

\* Keys.add / Buttons.add / Doors.add
add(entity, tile) == [entity EXCEPT !.locations = @ \cup {tile}]

(***************************************************************************)
(* Level load: App.get_nrooms and the scan of App.start.                   *)
(***************************************************************************)
RECURSIVE nrooms_from(_, _)
nrooms_from(g, i) ==
    IF i >= MAX_ROOMS THEN MAX_ROOMS
    ELSE IF tile_at(g, ROOM_TILES * i, 0) = END_TILE THEN i
    ELSE nrooms_from(g, i + 1)

get_nrooms(g) == nrooms_from(g, 1)

\* The 2x2 block of positions whose top-left cell is (x, y).
ship_tiles(x, y) == {<<x + i, y + j>> : i \in 0..1, j \in 0..1}

\* The state of the scan before its first cell.
ScanInit(g, old_spawn, n) ==
    [grid |-> g,
     spawn |-> old_spawn,
     keys |-> [r \in 0..(n - 1) |-> [k \in KEYS |-> Keys(k)]],
     buttons |-> [r \in 0..(n - 1) |-> [b \in BUTTONS |-> Buttons(b)]],
     doors |-> [r \in 0..(n - 1) |-> [d \in TOP_DOORS |-> Doors(d)]],
     ship_locations |-> {},
     ship_in_room |-> FALSE,
     err |-> "none"]

\* The last two statements of the loop body: the reset of ship_in_room and the
\* write of the (possibly replaced) tile.
ScanTail(st, x, y, tile) ==
    [st EXCEPT !.ship_in_room =
                   IF x % ROOM_TILES = 0 /\ y % ROOM_TILES = 0 THEN FALSE ELSE @,
               !.grid = tile_set(@, x, y, tile)]

\* The row at which the top-door branch raises.
TOP_DOOR_BAD_ROW == 16

\* The top-door branch without the look at the cell below.
scan_top_door_unchecked(st, x, y, tile) ==
    IF y = TOP_DOOR_BAD_ROW THEN
        [st EXCEPT !.err = "Top door cannot be at the bottom of the screen"]
    ELSE ScanTail([st EXCEPT !.doors[FloorDiv(x, ROOM_TILES)][tile] = add(@, <<x, y>>)],
                  x, y, tile)

\* The top-door branch of the loop body.  A raise leaves the scan state as it
\* is at the raise, with the error in err.
scan_top_door(st, x, y, tile) ==
    IF y = TOP_DOOR_BAD_ROW THEN
        [st EXCEPT !.err = "Top door cannot be at the bottom of the screen"]
    ELSE IF tile_at(st.grid, x, y + 1) \in BOTTOM_DOORS THEN
        ScanTail([st EXCEPT !.doors[FloorDiv(x, ROOM_TILES)][tile] = add(@, <<x, y>>)],
                 x, y, tile)
    ELSE [st EXCEPT !.err = "Missing bottom door"]

\* The bottom-door branch.
scan_bottom_door(st, x, y, tile) ==
    IF y = 0 THEN
        [st EXCEPT !.err = "Bottom door cannot be at the top of the screen"]
    ELSE IF tile_at(st.grid, x, y - 1) \notin TOP_DOORS THEN
        [st EXCEPT !.err = "Missing top door"]
    ELSE ScanTail(st, x, y, tile)

\* The END_SHIP_TOP_LEFT branch.
scan_ship_top_left(st, x, y, tile) ==
    IF st.ship_in_room THEN
        [st EXCEPT !.err = "Cannot have 2 end ships in the same room"]
    ELSE IF \E c \in ship_tiles(x, y) : tile_at(st.grid, c[1], c[2]) \notin END_SHIP THEN
        [st EXCEPT !.ship_in_room = TRUE, !.err = "Incomplete end ship at"]
    ELSE
        ScanTail([st EXCEPT !.ship_in_room = TRUE,
                            !.ship_locations = @ \cup ship_tiles(x, y)],
                 x, y, tile)

\* The last branch without its raise.
scan_ship_part_unchecked(st, x, y, tile) == ScanTail(st, x, y, tile)

\* The last branch, and the cells that take no branch.
scan_ship_part(st, x, y, tile) ==
    IF tile \in END_SHIP /\ <<x, y>> \notin st.ship_locations
    THEN [st EXCEPT !.err = "Incomplete end ship"]
    ELSE ScanTail(st, x, y, tile)

\* One iteration of the loop body of App.start, at cell (x, y).
ScanCell(st, x, y) ==
    LET tile == tile_at(st.grid, x, y)
        room == FloorDiv(x, ROOM_TILES)
    IN  IF tile \in SPAWN_TILE THEN
            ScanTail([st EXCEPT !.spawn = <<x * TILE_PX, y * TILE_PX>>], x, y, EMPTY_TILE)
        ELSE IF tile \in KEYS THEN
            ScanTail([st EXCEPT !.keys[room][tile] = add(@, <<x, y>>)], x, y, tile)
        ELSE IF tile \in BUTTONS THEN
            ScanTail([st EXCEPT !.buttons[room][tile] = add(@, <<x, y>>)], x, y, tile)
        ELSE IF tile \in TOP_DOORS THEN scan_top_door(st, x, y, tile)
        ELSE IF tile \in BOTTOM_DOORS THEN scan_bottom_door(st, x, y, tile)
        ELSE IF tile = END_SHIP_TOP_LEFT THEN scan_ship_top_left(st, x, y, tile)
        ELSE scan_ship_part(st, x, y, tile)

\* for x in range(self.nrooms * 16), from x on, within row y.
RECURSIVE ScanRow(_, _, _, _)
ScanRow(st, n, y, x) ==
    IF st.err # "none" \/ x >= n * ROOM_TILES THEN st
    ELSE ScanRow(ScanCell(st, x, y), n, y, x + 1)

\* The rows scanned by App.start.
SCAN_ROWS == 16

\* for y in range(16), from y on.
RECURSIVE ScanRows(_, _, _)
ScanRows(st, n, y) ==
    IF st.err # "none" \/ y >= SCAN_ROWS THEN st
    ELSE ScanRows(ScanRow(st, n, y, 0), n, y + 1)

\* The scan of App.start over tilemap g, with self.spawn = old_spawn before it.
Scan(g, old_spawn) == ScanRows(ScanInit(g, old_spawn, get_nrooms(g)), get_nrooms(g), 0)

(***************************************************************************)
(* Keys, Buttons and Doors methods.                                        *)
(***************************************************************************)
Max(a, b) == IF a >= b THEN a ELSE b

\* Doors.open_door(key)
open_door(door, key) ==
    IF key = <<7, door.sprite[1]>> THEN [door EXCEPT !.state = FALSE] ELSE door

\* button_open without the comparison of the columns.
button_open_any_column(door, button, frames) ==
    IF frames > door.timer THEN [door EXCEPT !.timer = frames] ELSE door

\* Doors.button_open(button, frames)
button_open(door, button, frames) ==
    IF button[1] = door.sprite[1] /\ frames > door.timer
    THEN [door EXCEPT !.timer = frames]
    ELSE door

\* Doors.update without the bounds of the animation.
Doors_update_unbounded(door) ==
    LET timer == Max(0, door.timer - 1)
    IN  [door EXCEPT
            !.timer = timer,
            !.animation_state = IF door.state /\ timer = 0 THEN @ + 1 ELSE @ - 1]

\* Doors.update without the countdown of the timer.
Doors_update_no_countdown(door) ==
    [door EXCEPT
        !.animation_state =
            IF door.state /\ door.timer = 0
            THEN (IF @ < DOOR_CLOSED THEN @ + 1 ELSE @)
            ELSE (IF @ > 0 THEN @ - 1 ELSE @)]

\* Doors.update()
Doors_update(door) ==
    LET timer == Max(0, door.timer - 1)
    IN  [door EXCEPT
            !.timer = timer,
            !.animation_state =
                IF door.state /\ timer = 0
                THEN (IF @ < DOOR_CLOSED THEN @ + 1 ELSE @)
                ELSE (IF @ > 0 THEN @ - 1 ELSE @)]

\* Buttons.update without the clamp at 0.
Buttons_update_unclamped(button) == [button EXCEPT !.state = @ - 1]

\* Buttons.update()
Buttons_update(button) == [button EXCEPT !.state = Max(0, @ - 1)]

\* Keys.collect(doors): the key and the room's doors after the call.
Keys_collect(key, doors) ==
    [key |-> [key EXCEPT !.state = FALSE],
     doors |-> [d \in DOMAIN doors |-> open_door(doors[d], key.sprite)]]

\* The loop body without the guards on the state in the two weaker zones.
press_at_unguarded(state, button, x, y) ==
    IF button[1] * 8 - 4 <= x /\ x <= button[1] * 8 + 4 /\ button[2] * 8 = y
    THEN FULL_PRESS
    ELSE IF /\ button[1] * 8 - 5 <= x /\ x <= button[1] * 8 + 5
            /\ button[2] * 8 - 1 <= y /\ y <= button[2] * 8
    THEN 2
    ELSE IF /\ button[1] * 8 - 6 <= x /\ x <= button[1] * 8 + 6
            /\ button[2] * 8 - 2 < y /\ y <= button[2] * 8
    THEN 1
    ELSE state

\* The body of the loop of Buttons.press for one location.
press_at(state, button, x, y) ==
    IF button[1] * 8 - 4 <= x /\ x <= button[1] * 8 + 4 /\ button[2] * 8 = y
    THEN FULL_PRESS
    ELSE IF /\ button[1] * 8 - 5 <= x /\ x <= button[1] * 8 + 5
            /\ button[2] * 8 - 1 <= y /\ y <= button[2] * 8
            /\ state <= 2
    THEN 2
    ELSE IF /\ button[1] * 8 - 6 <= x /\ x <= button[1] * 8 + 6
            /\ button[2] * 8 - 2 < y /\ y <= button[2] * 8
            /\ state <= 1
    THEN 1
    ELSE state

\* The loop of Buttons.press over self.locations: the states it can end in, one
\* for each order in which the set can be iterated.
RECURSIVE press_states(_, _, _, _)
press_states(locations, state, x, y) ==
    IF locations = {} THEN {state}
    ELSE UNION {press_states(locations \ {b}, press_at(state, b, x, y), x, y) :
                    b \in locations}

\* Buttons.press without the calls of button_open.
Buttons_press_no_doors(button, x, y, doors) ==
    {[button |-> [button EXCEPT !.state = s], doors |-> doors] :
        s \in press_states(button.locations, button.state, x, y)}

\* Buttons.press(x, y, doors): the possible (button, doors) after the call.
Buttons_press(button, x, y, doors) ==
    {[button |-> [button EXCEPT !.state = s],
      doors |-> [d \in DOMAIN doors |-> button_open(doors[d], button.sprite, s)]] :
        s \in press_states(button.locations, button.state, x, y)}

\* Writes tile t at every cell of a set of cells.
RECURSIVE set_all(_, _, _)
set_all(g, cells, t) ==
    IF cells = {} THEN g
    ELSE LET c == CHOOSE c \in cells : TRUE
         IN  set_all(tile_set(g, c[1], c[2], t), cells \ {c}, t)

\* Keys.update that draws the key whatever its state.
Keys_update_always_drawn(g, key) == set_all(g, key.locations, key.sprite)

\* Keys.update()
Keys_update(g, key) ==
    IF key.state THEN set_all(g, key.locations, key.sprite)
    ELSE set_all(g, key.locations, EMPTY_TILE)

\* Doors.draw that takes a door for closed only once its animation has closed.
Doors_draw_by_animation(g, door) ==
    LET below == {<<c[1], c[2] + 1>> : c \in door.locations}
    IN  IF door.state /\ door.timer = 0 /\ door.animation_state = DOOR_CLOSED
        THEN set_all(set_all(g, door.locations, door.sprite),
                     below, <<door.sprite[1], door.sprite[2] + 1>>)
        ELSE set_all(g, door.locations \cup below, EMPTY_TILE)

\* Doors.draw(): the tilemap writes.
Doors_draw(g, door) ==
    LET below == {<<c[1], c[2] + 1>> : c \in door.locations}
    IN  IF door.state /\ door.timer = 0
        THEN set_all(set_all(g, door.locations, door.sprite),
                     below, <<door.sprite[1], door.sprite[2] + 1>>)
        ELSE set_all(g, door.locations \cup below, EMPTY_TILE)

\* A per-room dictionary's entities applied one after the other to the tilemap.
RECURSIVE Keys_update_all(_, _, _)
Keys_update_all(g, keys, codes) ==
    IF codes = {} THEN g
    ELSE LET k == CHOOSE k \in codes : TRUE
         IN  Keys_update_all(Keys_update(g, keys[k]), keys, codes \ {k})

RECURSIVE Doors_draw_all(_, _, _)
Doors_draw_all(g, doors, codes) ==
    IF codes = {} THEN g
    ELSE LET d == CHOOSE d \in codes : TRUE
         IN  Doors_draw_all(Doors_draw(g, doors[d]), doors, codes \ {d})

(***************************************************************************)
(* The player.  An input is a record of the keys held in the frame: right, *)
(* left, up (KEY_UP or KEY_SPACE), r (KEY_R), q (KEY_Q pressed).           *)
(***************************************************************************)
Player(spawn_at) ==
    [x |-> spawn_at[1], y |-> spawn_at[2], jumping |-> 0, dead |-> FALSE, win |-> FALSE]

\* Player.corners()
corners(g, p) ==
    <<tile_at(g, FloorDiv(p.x, 8), FloorDiv(p.y, 8)),
      tile_at(g, FloorDiv(p.x, 8), FloorDiv(p.y + 7, 8)),
      tile_at(g, FloorDiv(p.x + 7, 8), FloorDiv(p.y, 8)),
      tile_at(g, FloorDiv(p.x + 7, 8), FloorDiv(p.y + 7, 8))>>

\* The grid cells Player.corners() reads.
corner_cells(p) ==
    {<<FloorDiv(p.x + dx, 8), FloorDiv(p.y + dy, 8)>> : dx \in {0, 7}, dy \in {0, 7}}

\* The test of the first statement of update_position: neither tile under the
\* player's feet is a collider.
no_ground(g, p) ==
    /\ tile_at(g, FloorDiv(p.x, 8), FloorDiv(p.y, 8) + 1) \notin COLLIDERS
    /\ tile_at(g, FloorDiv(p.x + 7, 8), FloorDiv(p.y, 8) + 1) \notin COLLIDERS

\* The first statement with the jump input read first, also in the air.
fall_or_jump_in_air(g, p, in) ==
    IF in.up THEN [p EXCEPT !.jumping = JUMP_TICKS]
    ELSE IF no_ground(g, p) /\ p.jumping = 0 THEN [p EXCEPT !.y = @ + 2]
    ELSE p

\* Player.update_position(), first statement: gravity or jump initiation.
fall_or_jump(g, p, in) ==
    IF /\ tile_at(g, FloorDiv(p.x, 8), FloorDiv(p.y, 8) + 1) \notin COLLIDERS
       /\ tile_at(g, FloorDiv(p.x + 7, 8), FloorDiv(p.y, 8) + 1) \notin COLLIDERS
    THEN (IF p.jumping = 0 THEN [p EXCEPT !.y = @ + 2] ELSE p)
    ELSE IF in.up THEN [p EXCEPT !.jumping = JUMP_TICKS]
    ELSE p

\* Second statement: a collider above cancels the jump.
ceiling_cancel(g, p) ==
    IF \/ tile_at(g, FloorDiv(p.x, 8), FloorDiv(p.y - 1, 8)) \in COLLIDERS
       \/ tile_at(g, FloorDiv(p.x + 7, 8), FloorDiv(p.y - 1, 8)) \in COLLIDERS
    THEN [p EXCEPT !.jumping = 0]
    ELSE p

\* Third statement: the rise.
rise(p) ==
    IF p.jumping > 0 THEN [p EXCEPT !.jumping = @ - 1, !.y = @ - 2] ELSE p

\* Fourth statement: the horizontal move.
walk(g, p, in) ==
    IF /\ in.right
       /\ tile_at(g, FloorDiv(p.x, 8) + 1, FloorDiv(p.y, 8)) \notin COLLIDERS
       /\ tile_at(g, FloorDiv(p.x, 8) + 1, FloorDiv(p.y + 7, 8)) \notin COLLIDERS
    THEN [p EXCEPT !.x = @ + 1]
    ELSE IF /\ p.x > 0
            /\ in.left
            /\ tile_at(g, FloorDiv(p.x - 1, 8), FloorDiv(p.y, 8)) \notin COLLIDERS
            /\ tile_at(g, FloorDiv(p.x - 1, 8), FloorDiv(p.y + 7, 8)) \notin COLLIDERS
    THEN [p EXCEPT !.x = @ - 1]
    ELSE p

\* Player.update_position()
update_position(g, p, in) == walk(g, rise(ceiling_cancel(g, fall_or_jump(g, p, in))), in)

\* What Player.update has done so far: the player, the camera room's entities,
\* and the record of the calls made: the codes collect and press were invoked
\* on, the doors that got a button_open call of their own column with frames
\* above their timer, and those calls as pairs <<door, frames>>.
Outcome(p, keys, buttons, doors) ==
    [player |-> p, keys |-> keys, buttons |-> buttons, doors |-> doors,
     collected |-> {}, pressed |-> {}, raised |-> {}, frames |-> {}]

\* Player.update, the death branch: reset held or a corner in fire.
die(p, crn, spawn_at, in) ==
    IF in.r \/ \E i \in 1..4 : crn[i] \in FIRES
    THEN [p EXCEPT !.dead = TRUE, !.x = spawn_at[1], !.y = spawn_at[2], !.jumping = 0]
    ELSE p

\* Player.update, the body of the loop over the corners, for one corner.
corner_step(o, corner) ==
    IF corner \in KEYS THEN
        LET c == Keys_collect(o.keys[corner], o.doors)
        IN  {[o EXCEPT !.keys[corner] = c.key, !.doors = c.doors,
                       !.collected = @ \cup {corner}]}
    ELSE IF corner \in BUTTONS THEN
        {[o EXCEPT !.buttons[corner] = c.button, !.doors = c.doors,
                   !.pressed = @ \cup {corner},
                   !.raised = @ \cup {d \in DOMAIN o.doors :
                                          /\ corner[1] = o.doors[d].sprite[1]
                                          /\ c.button.state > o.doors[d].timer},
                   !.frames = @ \cup {<<d, c.button.state>> : d \in
                                          {d \in DOMAIN o.doors :
                                              /\ corner[1] = o.doors[d].sprite[1]
                                              /\ c.button.state > o.doors[d].timer}}] :
            c \in Buttons_press(o.buttons[corner], o.player.x, o.player.y, o.doors)}
    ELSE IF corner \in END_SHIP THEN {[o EXCEPT !.player.win = TRUE]}
    ELSE {o}

\* for corner in corners, from the i-th corner on.
RECURSIVE corner_loop(_, _, _)
corner_loop(os, crn, i) ==
    IF i > 4 THEN os
    ELSE corner_loop(UNION {corner_step(o, crn[i]) : o \in os}, crn, i + 1)

\* Player.update(spawn, keys, buttons, doors): the possible outcomes.
Player_update(g, p, spawn_at, keys, buttons, doors, in) ==
    LET moved == update_position(g, p, in)
        crn == corners(g, moved)
    IN  corner_loop({Outcome(die(moved, crn, spawn_at, in), keys, buttons, doors)}, crn, 1)

(***************************************************************************)
(* The checkpoint.  self.keys, self.buttons and self.doors reference one   *)
(* object of the heap (live), self.saved_state another (saved_state);      *)
(* deepcopy allocates an object that nothing else references.              *)
(***************************************************************************)
Ids == {1, 2}

NoObj == [keys |-> <<>>, buttons |-> <<>>, doors |-> <<>>]

Mem(h, l, s) == [heap |-> h, live |-> l, saved_state |-> s]

\* deepcopy(obj) into an object other than `used`.
deepcopy_to(used) == CHOOSE i \in Ids : i # used

\* App.save_state()
save_state(m) ==
    LET n == deepcopy_to(m.live)
    IN  [m EXCEPT !.heap[n] = m.heap[m.live], !.saved_state = n]

\* load_state without the deepcopy: the live reference takes the saved object.
load_state_aliased(m) == [m EXCEPT !.live = m.saved_state]

\* load_state that leaves the doors as they are.
load_state_keeps_doors(m) ==
    LET n == deepcopy_to(m.saved_state)
    IN  [m EXCEPT !.heap[n] = [m.heap[m.saved_state] EXCEPT !.doors = m.heap[m.live].doors],
                  !.live = n]

\* App.load_state()
load_state(m) ==
    LET n == deepcopy_to(m.saved_state)
    IN  [m EXCEPT !.heap[n] = m.heap[m.saved_state], !.live = n]

(***************************************************************************)
(* The state of the App.                                                   *)
(***************************************************************************)
VARIABLES
    game_state,     \* self.game_state
    grid,           \* the tilemap of the chosen difficulty
    nrooms,         \* self.nrooms
    spawn,          \* self.spawn
    player,         \* self.player
    camera,         \* self.camera
    heap,           \* the Keys/Buttons/Doors objects, by object
    live,           \* the object self.keys, self.buttons, self.doors reference
    saved_state,    \* the object self.saved_state references
    game_started,   \* self.game_started
    ship,           \* self.ship
    ship_height,    \* self.ship_height
    error,          \* the exception that ended the program, or "none"
    starts,         \* the number of calls of App.start so far
    last            \* what the last call did (see Last)

vars == <<game_state, grid, nrooms, spawn, player, camera, heap, live, saved_state,
          game_started, ship, ship_height, error, starts, last>>

\* The record of one call: the operation, the room whose entities it passed to
\* Player.update, whether it saved or restored the checkpoint, the player's
\* dead flag after Player.update, and the calls Player.update made.
Last(op, room, saved, dead, collected, pressed, raised, frames) ==
    [op |-> op, room |-> room, saved |-> saved, dead |-> dead,
     collected |-> collected, pressed |-> pressed, raised |-> raised, frames |-> frames]

NoCall(op) == Last(op, 0, FALSE, FALSE, {}, {}, {}, {})

NoShip == <<-1, -1>>

keys == heap[live].keys
buttons == heap[live].buttons
doors == heap[live].doors

Inputs == [right : BOOLEAN, left : BOOLEAN, up : BOOLEAN, r : BOOLEAN, q : BOOLEAN]

(***************************************************************************)
(* Levels.                                                                 *)
(***************************************************************************)
WALL == <<4, 0>>
FIRE == <<0, 2>>

\* The window's rows as tuples of tile codes.
RECURSIVE MakeRow(_, _, _)
MakeRow(Cell(_, _), y, x) ==
    IF x >= GridW THEN <<>> ELSE <<Cell(x, y)>> \o MakeRow(Cell, y, x + 1)

RECURSIVE MakeRows(_, _, _)
MakeRows(Cell(_, _), h, y) ==
    IF y >= h THEN <<>> ELSE <<MakeRow(Cell, y, 0)>> \o MakeRows(Cell, h, y + 1)

\* The window of h rows of the tilemap whose cells are Cell(x, y).
MakeGrid(Cell(_, _), h) == MakeRows(Cell, h, 0)

\* Cells outside the rooms of a level of n rooms: the END_TILE that ends the
\* level at (16 n, 0), and nothing else.
Outside(n, x, y) == IF x = ROOM_TILES * n /\ y = 0 THEN END_TILE ELSE EMPTY_TILE

\* A two-room level, solid but for a corridor along row 3: a fire (12), the
\* spawn (13), a key (14) and the key's door (15, standing in the corridor) in
\* the first room; in the second room an empty cell (16) and the end ship (17).
KeyLevelCell(x, y) ==
    IF x >= 32 \/ y >= 16 THEN Outside(2, x, y)
    ELSE IF <<x, y>> = <<12, 3>> THEN FIRE
    ELSE IF <<x, y>> = <<13, 3>> THEN <<3, 4>>
    ELSE IF <<x, y>> = <<14, 3>> THEN <<7, 4>>
    ELSE IF <<x, y>> = <<15, 2>> THEN <<4, 4>>
    ELSE IF <<x, y>> = <<15, 3>> THEN <<4, 5>>
    ELSE IF <<x, y>> = <<16, 3>> THEN EMPTY_TILE
    ELSE IF <<x, y>> = <<17, 3>> THEN <<0, 4>>
    ELSE IF <<x, y>> = <<18, 3>> THEN <<1, 4>>
    ELSE IF <<x, y>> = <<17, 4>> THEN <<0, 5>>
    ELSE IF <<x, y>> = <<18, 4>> THEN <<1, 5>>
    ELSE WALL

KeyLevel == MakeGrid(KeyLevelCell, PlayH)

\* A two-room level, solid but for a corridor along row 3: the spawn (14) and
\* a button (15) in the first room, an empty cell (16) in the second; the
\* button's door stands in the wall above the spawn.
ButtonLevelCell(x, y) ==
    IF x >= 32 \/ y >= 16 THEN Outside(2, x, y)
    ELSE IF <<x, y>> = <<14, 3>> THEN <<3, 4>>
    ELSE IF <<x, y>> = <<15, 3>> THEN <<5, 6>>
    ELSE IF <<x, y>> = <<16, 3>> THEN EMPTY_TILE
    ELSE IF <<x, y>> = <<14, 0>> THEN <<5, 4>>
    ELSE IF <<x, y>> = <<14, 1>> THEN <<5, 5>>
    ELSE WALL

ButtonLevel == MakeGrid(ButtonLevelCell, PlayH)

PlayLevels == {KeyLevel, ButtonLevel}

(***************************************************************************)
(* App.draw and App.draw_end: the tilemap writes and the end animation.    *)
(***************************************************************************)
\* The part of the App that draw reads and writes.
View(gs, g, cam, started, sh, height, err) ==
    [game_state |-> gs, grid |-> g, camera |-> cam, game_started |-> started,
     ship |-> sh, ship_height |-> height, error |-> err]

\* draw_end, the scan for the ship in the camera room: the ship found last and
\* the tilemap with each found ship's rectangle cleared.  for x in range(16),
\* from x on, within row y.
RECURSIVE find_ship_row(_, _, _)
find_ship_row(v, y, x) ==
    IF x >= ROOM_TILES THEN v
    ELSE IF tile_at(v.grid, x + ROOM_TILES * v.camera, y) = END_SHIP_TOP_LEFT
    THEN find_ship_row([v EXCEPT !.ship = <<x + ROOM_TILES * v.camera, y>>,
                                 !.grid = set_all(@, ship_tiles(x + ROOM_TILES * v.camera, y),
                                                  EMPTY_TILE)],
                       y, x + 1)
    ELSE find_ship_row(v, y, x + 1)

\* for y in range(16), from y on; a row is scanned before the next is begun.
RECURSIVE find_ship(_, _)
find_ship(v, y) ==
    IF v.error # "none" \/ y >= ROOM_TILES THEN v
    ELSE find_ship(find_ship_row(v, y, 0), y + 1)

\* App.draw_end()
draw_end(v) ==
    LET w == IF v.game_started
             THEN [find_ship(v, 0) EXCEPT !.ship_height = 0, !.game_started = FALSE]
             ELSE v
    IN  IF w.ship = NoShip THEN [w EXCEPT !.error = "AttributeError: ship"]
        ELSE IF w.ship[2] * 8 + 24 - w.ship_height > 0
        THEN [w EXCEPT !.ship_height = @ + 1]
        ELSE [w EXCEPT !.camera = 0]

\* App.draw(), with the camera room's doors ds
draw(v, ds) ==
    IF v.game_state = MENU THEN v
    ELSE LET w == [v EXCEPT !.grid = Doors_draw_all(@, ds, DOMAIN ds)]
         IN  IF w.game_state = END THEN draw_end(w) ELSE w

(***************************************************************************)
(* Init: the App after __init__, in the menu, with the tilemap of the      *)
(* chosen difficulty as loaded from the assets.                            *)
(***************************************************************************)
InitApp(g) ==
    /\ game_state = MENU
    /\ grid = g
    /\ nrooms = 0
    /\ spawn = <<0, 0>>
    /\ player = Player(<<0, 0>>)
    /\ camera = 0
    /\ heap = [i \in Ids |-> NoObj]
    /\ live = 1
    /\ saved_state = 2
    /\ game_started = FALSE
    /\ ship = NoShip
    /\ ship_height = 0
    /\ error = "none"
    /\ starts = 0
    /\ last = NoCall("init")

Init == \E g \in PlayLevels : InitApp(g)

\* The frame's draw, applied to the App after its update.
Draw(gs, g, cam, ds) ==
    \E v \in {draw(View(gs, g, cam, game_started, ship, ship_height, "none"), ds)} :
        /\ game_state' = v.game_state
        /\ grid' = v.grid
        /\ camera' = v.camera
        /\ game_started' = v.game_started
        /\ ship' = v.ship
        /\ ship_height' = v.ship_height
        /\ error' = v.error

(***************************************************************************)
(* App.start, run by update_menu when RETURN is pressed on "Start", and    *)
(* the frame's draw.                                                       *)
(***************************************************************************)
\* App.start when fewer than limit starts have been made.
StartWithin(limit) ==
    /\ game_state = MENU
    /\ error = "none"
    /\ starts < limit
    /\ starts' = starts + 1
    /\ \E sc \in {Scan(grid, spawn)} :
       LET n == get_nrooms(grid)
           store == [keys |-> sc.keys, buttons |-> sc.buttons, doors |-> sc.doors]
       IN  /\ nrooms' = n
           /\ spawn' = sc.spawn
           /\ last' = NoCall("start")
           /\ IF sc.err # "none"
              THEN /\ error' = sc.err
                   /\ grid' = sc.grid
                   /\ heap' = [heap EXCEPT ![1] = store]
                   /\ live' = 1
                   /\ UNCHANGED <<game_state, player, camera, saved_state,
                                  game_started, ship, ship_height>>
              ELSE \E m \in {save_state(Mem([heap EXCEPT ![1] = store], 1, saved_state))},
                      v \in {draw(View(PLAYING, sc.grid, 0, TRUE, ship, ship_height, "none"),
                                  sc.doors[0])} :
                       /\ player' = Player(sc.spawn)
                       /\ heap' = m.heap
                       /\ live' = m.live
                       /\ saved_state' = m.saved_state
                       /\ game_state' = v.game_state
                       /\ grid' = v.grid
                       /\ camera' = v.camera
                       /\ game_started' = v.game_started
                       /\ ship' = v.ship
                       /\ ship_height' = v.ship_height
                       /\ error' = v.error

Start == StartWithin(MaxStarts)

(***************************************************************************)
(* App.update while playing, and the frame's draw.                         *)
(***************************************************************************)
\* The first statements of App.update while playing: the quit key, and the
\* room crossing with its new spawn and its save.
cross(gs, p, cam, spawn_at, m, in) ==
    LET room == FloorDiv(p.x + 4, ROOM_PX)
    IN  [game_state |-> IF in.q THEN MENU ELSE gs,
         crossing |-> cam # room,
         camera |-> room,
         spawn |-> IF cam # room
                   THEN <<p.x + 4 - 8 * (IF cam > room THEN 1 ELSE 0), p.y>>
                   ELSE spawn_at,
         mem |-> IF cam # room THEN save_state(m) ELSE m]

\* The entities of room `room` of the live object replaced by those of o.
put_room(m, room, o) ==
    [m EXCEPT !.heap[m.live] = [@ EXCEPT !.keys[room] = o.keys,
                                         !.buttons[room] = o.buttons,
                                         !.doors[room] = o.doors]]

\* The death check without the restore.
restore_never(m, dead) == m

\* if self.player.dead: self.load_state()
restore(m, dead) == IF dead THEN load_state(m) ELSE m

\* The loops run over the doors and buttons of every room.
tick_room_every_room(m, room) ==
    [m EXCEPT !.heap[m.live] =
        [@ EXCEPT !.doors = [r \in DOMAIN @ |-> [d \in DOMAIN @[r] |-> Doors_update(@[r][d])]],
                  !.buttons = [r \in DOMAIN @ |->
                                  [b \in DOMAIN @[r] |-> Buttons_update(@[r][b])]]]]

\* The loops of App.update over the camera room's doors and buttons.
tick_room(m, room) ==
    [m EXCEPT !.heap[m.live] =
        [@ EXCEPT !.doors[room] = [d \in DOMAIN @ |-> Doors_update(@[d])],
                  !.buttons[room] = [b \in DOMAIN @ |-> Buttons_update(@[b])]]]

Update(in) ==
    /\ game_state = PLAYING
    /\ error = "none"
    /\ \E c \in {cross(game_state, player, camera, spawn, Mem(heap, live, saved_state), in)} :
        IF c.camera \notin DOMAIN c.mem.heap[c.mem.live].keys
        THEN /\ error' = "IndexError"
             /\ spawn' = c.spawn
             /\ camera' = c.camera
             /\ heap' = c.mem.heap
             /\ live' = c.mem.live
             /\ saved_state' = c.mem.saved_state
             /\ game_state' = c.game_state
             /\ last' = Last("update", c.camera, c.crossing, FALSE, {}, {}, {}, {})
             /\ UNCHANGED <<grid, nrooms, player, game_started, ship, ship_height, starts>>
        ELSE \E o \in Player_update(grid, player, c.spawn,
                                    c.mem.heap[c.mem.live].keys[c.camera],
                                    c.mem.heap[c.mem.live].buttons[c.camera],
                                    c.mem.heap[c.mem.live].doors[c.camera], in) :
             \E m \in {tick_room(restore(put_room(c.mem, c.camera, o), o.player.dead),
                                 c.camera)} :
             \E g \in {Keys_update_all(grid, m.heap[m.live].keys[c.camera], KEYS)} :
                /\ spawn' = c.spawn
                /\ player' = [o.player EXCEPT !.dead = FALSE]
                /\ heap' = m.heap
                /\ live' = m.live
                /\ saved_state' = m.saved_state
                /\ last' = Last("update", c.camera, c.crossing, o.player.dead,
                                o.collected, o.pressed, o.raised, o.frames)
                /\ Draw(IF o.player.win THEN END ELSE c.game_state, g, c.camera,
                        m.heap[m.live].doors[c.camera])
                /\ UNCHANGED <<nrooms, starts>>

(***************************************************************************)
(* App.update on the end screen, and the frame's draw.                     *)
(***************************************************************************)
UpdateEnd(return) ==
    /\ game_state = END
    /\ error = "none"
    /\ last' = NoCall("end")
    /\ Draw(IF return THEN MENU ELSE END, grid, camera, doors[camera])
    /\ UNCHANGED <<nrooms, spawn, player, heap, live, saved_state, starts>>

Next ==
    \/ Start
    \/ \E in \in Inputs : Update(in)
    \/ \E return \in BOOLEAN : UpdateEnd(return)

Spec == Init /\ [][Next]_vars

(***************************************************************************)
(* Level load on its own: the App in the menu with one of a family of      *)
(* tilemaps, well-formed and malformed, and App.start.                     *)
(***************************************************************************)
\* An empty two-room level with a spawn tile.
EmptyLevelCell(x, y) ==
    IF x >= 32 \/ y >= 16 THEN Outside(2, x, y)
    ELSE IF <<x, y>> = <<2, 2>> THEN <<3, 4>>
    ELSE EMPTY_TILE

EmptyLevel == MakeGrid(EmptyLevelCell, GridH)

\* A complete end ship with its top-left cell at (x, y), as <<x, y, code>>.
ShipAt(x, y) ==
    {<<x, y, <<0, 4>>>>, <<x + 1, y, <<1, 4>>>>, <<x, y + 1, <<0, 5>>>>,
     <<x + 1, y + 1, <<1, 5>>>>}

\* The pieces a tilemap of the family is painted with, later pieces over
\* earlier ones: ships, doors and their halves, a key and a button.
LoadStamps ==
    <<ShipAt(0, 0), ShipAt(4, 4), ShipAt(16, 0), ShipAt(20, 4), ShipAt(9, 15),
      {<<5, 4, <<0, 4>>>>},
      {<<8, 8, <<1, 5>>>>},
      {<<1, 15, <<4, 4>>>>},
      {<<1, 16, <<4, 5>>>>},
      {<<3, 0, <<5, 5>>>>},
      {<<17, 7, <<5, 4>>>>},
      {<<17, 8, <<4, 5>>>>},
      {<<12, 7, <<6, 4>>>>, <<12, 8, <<6, 5>>>>},
      {<<18, 3, <<7, 5>>>>, <<3, 3, <<6, 6>>>>}>>

\* Tilemap g with the cells of a piece written.
RECURSIVE Paint(_, _)
Paint(g, cells) ==
    IF cells = {} THEN g
    ELSE LET c == CHOOSE c \in cells : TRUE
         IN  Paint(tile_set(g, c[1], c[2], c[3]), cells \ {c})

\* Tilemap g with the chosen pieces painted in the order of LoadStamps, from
\* piece i on.
RECURSIVE PaintAll(_, _, _)
PaintAll(g, chosen, i) ==
    IF i > Len(LoadStamps) THEN g
    ELSE PaintAll(IF i \in chosen THEN Paint(g, LoadStamps[i]) ELSE g, chosen, i + 1)

LoadLevels ==
    {PaintAll(EmptyLevel, chosen, 1) :
        chosen \in {c \in SUBSET (1..Len(LoadStamps)) : Cardinality(c) <= MaxStamps}}

InitLoad == \E g \in LoadLevels : InitApp(g)

NextLoad == Start

SpecLoad == InitLoad /\ [][NextLoad]_vars

(***************************************************************************)
(* Properties of a play session (Spec).                                    *)
(***************************************************************************)
\* The step is a frame of play: App.update while playing, then App.draw.
Playing == game_state = PLAYING /\ error = "none"

\* The checkpoint as it is after the step.
saved_after == heap'[saved_state']

\* C1: the checkpoint is an object of its own; a tick that saves makes it the
\* entities as they are at the save, and no other tick changes it; a tick in
\* which the player dies leaves the entities of every room as the checkpoint
\* holds them, the camera room's after the tick's Doors.update and
\* Buttons.update; two death ticks in a row with no save between them leave
\* the same entities.
C1_CheckpointLaw ==
    [][Playing =>
        /\ live' # saved_state'
        /\ last'.saved => saved_after = heap[live]
        /\ ~last'.saved => saved_after = heap[saved_state]
        /\ last'.dead =>
               heap'[live'] =
                   tick_room(Mem(heap', saved_state', saved_state'), last'.room).heap[saved_state']
        /\ (last.op = "update" /\ last.dead /\ last'.dead /\ ~last'.saved)
               => heap'[live'] = heap[live]]_vars

\* A death tick in which a key was collected after the save: the key is
\* uncollected again, as the checkpoint holds it.
C1_Witness ==
    /\ Playing /\ last.op = "update" /\ last.dead
    /\ \E k \in last.collected : keys[last.room][k].state /\ heap[saved_state].keys[last.room][k].state

\* C2, as claimed: for every key entity of every room, over the ticks of a
\* play session, deaths included, a key state that is false stays false.
C2_KeyNeverReverts ==
    [][Playing =>
        \A r \in DOMAIN keys : \A k \in KEYS :
            ~keys[r][k].state => ~keys'[r][k].state]_vars

\* C2, amended: a key state that is false stays false over every tick in which
\* the player does not die, and on a death tick every key takes the state the
\* checkpoint holds; after every tick each location of each key of the camera
\* room holds EMPTY_TILE if the key's state is false and the key's sprite code
\* only if it is true.
C2_KeyStaysCollectedUntilDeath ==
    [][Playing =>
        /\ \A r \in DOMAIN keys : \A k \in KEYS :
            /\ (~last'.dead /\ ~keys[r][k].state) => ~keys'[r][k].state
            /\ last'.dead => keys'[r][k].state = saved_after.keys[r][k].state
        /\ \A k \in KEYS : \A c \in keys'[last'.room][k].locations :
            tile_at(grid', c[1], c[2]) =
                IF keys'[last'.room][k].state THEN k ELSE EMPTY_TILE]_vars

\* A collected key after a later tick without a death.
C2_Witness ==
    /\ Playing /\ last.op = "update" /\ ~last.dead /\ last.collected = {}
    /\ \E k \in KEYS : keys[last.room][k].locations # {} /\ ~keys[last.room][k].state

\* C3, as claimed: for every door entity of every room, over the ticks of a
\* play session, deaths included, a door state that is false stays false.
C3_DoorNeverReverts ==
    [][Playing =>
        \A r \in DOMAIN doors : \A d \in TOP_DOORS :
            ~doors[r][d].state => ~doors'[r][d].state]_vars

\* C3, amended: a door state that is false stays false over every tick in
\* which the player does not die, and on a death tick every door takes the
\* state the checkpoint holds.
C3_DoorStaysOpenUntilDeath ==
    [][Playing =>
        \A r \in DOMAIN doors : \A d \in TOP_DOORS :
            /\ (~last'.dead /\ ~doors[r][d].state) => ~doors'[r][d].state
            /\ last'.dead => doors'[r][d].state = saved_after.doors[r][d].state]_vars

\* A door opened by its key, after a later tick without a death.
C3_Witness ==
    /\ Playing /\ last.op = "update" /\ ~last.dead /\ last.collected = {}
    /\ \E d \in TOP_DOORS : doors[last.room][d].locations # {} /\ ~doors[last.room][d].state

\* C4: in a tick in which the player dies, no key is collected, no button is
\* pressed and win is not set.
C4_NoInteractionOnDeath ==
    (last.op = "update" /\ last.dead) =>
        (last.collected = {} /\ last.pressed = {} /\ ~player.win)

\* C9, as claimed: a button state is always in 0..150 and never increases over
\* a tick in which press is not invoked on the entity.
C9_ButtonNeverIncreasesUnpressed ==
    [][Playing =>
        \A r \in DOMAIN buttons : \A b \in BUTTONS :
            /\ buttons'[r][b].state \in 0..FULL_PRESS
            /\ ~(r = last'.room /\ b \in last'.pressed)
                   => buttons'[r][b].state <= buttons[r][b].state]_vars

\* C9, amended: a button state is always in 0..150, and over a tick in which
\* press is not invoked on the entity and the player does not die it goes
\* down by exactly 1, clamped at 0, in the camera room and stays as it is in
\* every other room.
C9_ButtonDecaysUnpressedUntilDeath ==
    [][Playing =>
        \A r \in DOMAIN buttons : \A b \in BUTTONS :
            /\ buttons'[r][b].state \in 0..FULL_PRESS
            /\ (~last'.dead /\ ~(r = last'.room /\ b \in last'.pressed))
                   => buttons'[r][b].state =
                          IF r = last'.room THEN Max(0, buttons[r][b].state - 1)
                          ELSE buttons[r][b].state]_vars

\* A button part of its way down, after a tick without a press or a death.
C9_Witness ==
    /\ Playing /\ last.op = "update" /\ ~last.dead /\ last.pressed = {}
    /\ \E b \in BUTTONS :
           buttons[last.room][b].state > 0 /\ buttons[last.room][b].state < FULL_PRESS - 1

\* C10, as claimed: a door's timer increases over a tick only through a
\* button_open call of the door's column with frames above the timer.
C10_TimerOnlyRaisedByButton ==
    [][Playing =>
        \A r \in DOMAIN doors : \A d \in TOP_DOORS :
            doors'[r][d].timer > doors[r][d].timer
                => (r = last'.room /\ d \in last'.raised)]_vars

\* C10, amended: over a tick in which the player does not die, a door's timer
\* increases only through a button_open call of the door's column with frames
\* above the timer; a door that gets no such call keeps its timer but for the
\* decrement of Doors.update in the camera room.
C10_TimerOnlyRaisedByButtonUntilDeath ==
    [][Playing =>
        \A r \in DOMAIN doors : \A d \in TOP_DOORS :
            /\ (~last'.dead /\ doors'[r][d].timer > doors[r][d].timer)
                   => (r = last'.room /\ d \in last'.raised)
            /\ (~last'.dead /\ ~(r = last'.room /\ d \in last'.raised))
                   => doors'[r][d].timer =
                          IF r = last'.room THEN Max(0, doors[r][d].timer - 1)
                          ELSE doors[r][d].timer]_vars

\* A door whose timer a button raised in the last tick.
C10_Witness ==
    /\ Playing /\ last.op = "update" /\ ~last.dead
    /\ \E d \in last.raised : doors[last.room][d].timer = FULL_PRESS - 1

(***************************************************************************)
(* Properties of level load (SpecLoad).  App.start writes the tilemap only *)
(* at the spawn tile, so the cells of doors and ships after the load are   *)
(* those of the level.                                                     *)
(***************************************************************************)
\* App.start has run and returned.
Loaded == last.op = "start" /\ error = "none"

\* The cells App.start scans.
Scanned == (0..(nrooms * ROOM_TILES - 1)) \X (0..(SCAN_ROWS - 1))

\* The scanned cells of room r.
ScannedIn(r) == {c \in Scanned : FloorDiv(c[1], ROOM_TILES) = r}

\* C5: level load fails for every level with a top-door code on the last
\* scanned row (y = 15).
C5_TopDoorOnLastRowFails ==
    (last.op = "start" /\ \E c \in Scanned : c[2] = 15 /\ tile_at(grid, c[1], c[2]) \in TOP_DOORS)
        => error # "none"

\* Every scanned top door has a bottom door below it and every scanned bottom
\* door a top door above it.
DoorsPaired ==
    \A c \in Scanned :
        /\ tile_at(grid, c[1], c[2]) \in TOP_DOORS
               => tile_at(grid, c[1], c[2] + 1) \in BOTTOM_DOORS
        /\ tile_at(grid, c[1], c[2]) \in BOTTOM_DOORS
               => tile_at(grid, c[1], c[2] - 1) \in TOP_DOORS

\* C6: level load either succeeds or raises, it succeeds only if the doors
\* are paired, and then the locations of the door entity of code d in room r
\* are exactly the scanned cells of room r that hold d.
C6_LoadedDoorsPaired ==
    /\ last.op = "start" => (error # "none" \/ DoorsPaired)
    /\ Loaded =>
        \A r \in DOMAIN doors : \A d \in TOP_DOORS :
            doors[r][d].locations =
                {c \in ScannedIn(r) : tile_at(grid, c[1], c[2]) = d}

\* A loaded level with a door registered in each room.
C6_Witness ==
    /\ Loaded
    /\ \E d \in TOP_DOORS : doors[0][d].locations # {}
    /\ \E d \in TOP_DOORS : doors[1][d].locations # {}

\* The scanned cells of room r that hold the end ship's top-left code.
TopLefts(r) == {c \in ScannedIn(r) : tile_at(grid, c[1], c[2]) = END_SHIP_TOP_LEFT}

\* C7: level load raises "Cannot have 2 end ships in the same room" only if
\* some room holds two top-left codes, and a level in which some room holds
\* two of them does not load.
C7_ShipCheckPerRoom ==
    /\ (last.op = "start" /\ error = "Cannot have 2 end ships in the same room")
           => \E r \in 0..(nrooms - 1) : Cardinality(TopLefts(r)) >= 2
    /\ (last.op = "start" /\ \E r \in 0..(nrooms - 1) : Cardinality(TopLefts(r)) >= 2)
           => error # "none"

\* C8: after a successful load every scanned cell that holds an end-ship code
\* lies in a 2x2 block of end-ship codes whose top-left cell holds the
\* top-left code.
C8_LoadedShipsComplete ==
    Loaded =>
        \A c \in Scanned :
            tile_at(grid, c[1], c[2]) \in END_SHIP =>
                \E i \in 0..1, j \in 0..1 :
                    /\ tile_at(grid, c[1] - i, c[2] - j) = END_SHIP_TOP_LEFT
                    /\ \A t \in ship_tiles(c[1] - i, c[2] - j) :
                           tile_at(grid, t[1], t[2]) \in END_SHIP

\* A loaded level with an end ship.
C8_Witness == Loaded /\ \E c \in Scanned : tile_at(grid, c[1], c[2]) \in END_SHIP

(***************************************************************************)
(* Buttons.press on its own: a Buttons entity of one room with locations   *)
(* side by side on one row, a prior state, a player position, and one call *)
(* of press with the room's doors.                                         *)
(***************************************************************************)
MaxButtonLocs == 3

\* The cells a location of the entity can be at: a run along row 2.
PressCells == {<<2 + i, 2>> : i \in 0..(MaxButtonLocs - 1)}

\* The player positions of the call: around the run, from above it to below.
PressXs == 8..(8 * (2 + MaxButtonLocs) + 8)
PressYs == 13..17

\* The states the entity is called in.
PressStates == {0, 1, 2, 3, FULL_PRESS - 1, FULL_PRESS}

\* The button the call is made on.
PressButton == <<5, 6>>

InitPress ==
    \E locs \in SUBSET PressCells, s \in PressStates, x \in PressXs, y \in PressYs :
        /\ game_state = PLAYING
        /\ grid = <<<<EMPTY_TILE>>>>
        /\ nrooms = 1
        /\ spawn = <<0, 0>>
        /\ player = [Player(<<x, y>>) EXCEPT !.x = x, !.y = y]
        /\ camera = 0
        /\ heap = [i \in Ids |->
                     IF i = 1
                     THEN [keys |-> [r \in {0} |-> [k \in KEYS |-> Keys(k)]],
                           buttons |-> [r \in {0} |->
                               [b \in BUTTONS |->
                                   IF b = PressButton
                                   THEN [Buttons(b) EXCEPT !.locations = locs, !.state = s]
                                   ELSE Buttons(b)]],
                           doors |-> [r \in {0} |-> [d \in TOP_DOORS |-> Doors(d)]]]
                     ELSE NoObj]
        /\ live = 1
        /\ saved_state = 2
        /\ game_started = TRUE
        /\ ship = NoShip
        /\ ship_height = 0
        /\ error = "none"
        /\ starts = 1
        /\ last = NoCall("init")

\* buttons[PressButton].press(self.x, self.y, doors), as Player.update calls it.
Press ==
    /\ last.op = "init"
    /\ \E o \in Buttons_press(buttons[0][PressButton], player.x, player.y, doors[0]) :
        /\ heap' = [heap EXCEPT ![live].buttons[0][PressButton] = o.button,
                                ![live].doors[0] = o.doors]
        /\ last' = Last("press", 0, FALSE, FALSE, {}, {PressButton}, {}, {})
    /\ UNCHANGED <<game_state, grid, nrooms, spawn, player, camera, live, saved_state,
                   game_started, ship, ship_height, error, starts>>

NextPress == Press

SpecPress == InitPress /\ [][NextPress]_vars

\* The player is in the full-press zone of location b.
in_full_zone(b, x, y) == b[1] * 8 - 4 <= x /\ x <= b[1] * 8 + 4 /\ b[2] * 8 = y

\* C11: a call of press leaves state at or above what it was, whatever the
\* locations, the order they are iterated in, the prior state and the player
\* position; with the player in the full-press zone of one of the locations
\* the state after the call is 150.
C11_PressNeverLowers ==
    [][last'.op = "press" =>
        LET before == buttons[0][PressButton]
            after == buttons'[0][PressButton]
        IN  /\ after.state >= before.state
            /\ (\E b \in before.locations : in_full_zone(b, player.x, player.y))
                   => after.state = FULL_PRESS]_vars

\* A call made in the full-press zone of one location and in a weaker zone,
\* not the full-press zone, of another.
C11_Witness ==
    /\ last.op = "press"
    /\ \E b, c \in buttons[0][PressButton].locations :
        /\ in_full_zone(b, player.x, player.y)
        /\ ~in_full_zone(c, player.x, player.y)
        /\ press_at(0, c, player.x, player.y) \in {1, 2}
    /\ buttons[0][PressButton].state = FULL_PRESS

(***************************************************************************)
(* Properties of the frame: the grid against the doors, the doors' timers  *)
(* and animation, the restore on death (Spec).                             *)
(***************************************************************************)
\* The last call was a frame of play of room last.room: App.start or
\* App.update of the playing game, and App.draw after it.
FrameDone == last.op \in {"start", "update"} /\ error = "none"

\* The cells of door entity door hold EMPTY_TILE if the door is open (its
\* state false or its timer running), and its top and bottom codes if not.
door_cells_synced(g, door) ==
    \A c \in door.locations :
        IF ~door.state \/ door.timer > 0
        THEN tile_at(g, c[1], c[2]) = EMPTY_TILE /\ tile_at(g, c[1], c[2] + 1) = EMPTY_TILE
        ELSE /\ tile_at(g, c[1], c[2]) = door.sprite
             /\ tile_at(g, c[1], c[2] + 1) = <<door.sprite[1], door.sprite[2] + 1>>

\* C12, as claimed: after each frame (update, then draw) the cells of every
\* door of the current room are empty iff the door's state is false or its
\* timer above 0, and hold the door's codes otherwise.
C12_DoorCellsSyncedEveryFrame ==
    FrameDone => \A d \in TOP_DOORS : door_cells_synced(grid, doors[last.room][d])

\* C12, amended: the same after each frame whose draw draws the room, which
\* is every frame but the one in which the quit key sent the game to the menu.
C12_DoorCellsSyncedWhenDrawn ==
    (FrameDone /\ game_state # MENU)
        => \A d \in TOP_DOORS : door_cells_synced(grid, doors[last.room][d])

\* A drawn frame with a door closed by state and timer and not yet fully
\* closed in its animation, and one with a door open.
C12_Witness ==
    /\ FrameDone /\ game_state # MENU
    /\ \E d \in TOP_DOORS :
        LET door == doors[last.room][d]
        IN  /\ door.locations # {}
            /\ door.state /\ door.timer = 0
            /\ door.animation_state < DOOR_CLOSED

\* C13, as claimed, for the first of the following ticks: after a tick in
\* which button_open raised a door's timer to n >= 1, the next tick of that
\* room leaves the door's cells empty (ticks in which the player dies or the
\* game is quit left aside).
C13_HeldOpenAfterRaise ==
    [][(/\ Playing /\ last.op = "update" /\ ~last.dead
        /\ last'.op = "update" /\ ~last'.dead /\ last'.room = last.room
        /\ game_state' # MENU)
        => \A f \in last.frames :
               LET door == doors'[last'.room][f[1]]
               IN  f[2] >= 1 =>
                       \A c \in door.locations :
                           /\ tile_at(grid', c[1], c[2]) = EMPTY_TILE
                           /\ tile_at(grid', c[1], c[2] + 1) = EMPTY_TILE]_vars

\* C13, amended: in a tick in which the player does not die, a door raised
\* to n has timer n - 1 at the end of the tick, a door not raised has its
\* timer one lower, clamped at 0, and after the frame, if it draws the room,
\* the door's cells are empty iff the timer is still above 0 or the door's
\* state is false.
C13_HeldOpenWhileTimerRuns ==
    [][(Playing /\ last'.op = "update" /\ ~last'.dead) =>
        \A d \in TOP_DOORS :
            /\ d \in last'.raised =>
                   /\ \E f \in last'.frames :
                          f[1] = d /\ doors'[last'.room][d].timer = f[2] - 1
                   /\ \A f \in last'.frames :
                          f[1] = d => doors'[last'.room][d].timer >= f[2] - 1
            /\ d \notin last'.raised
                   => doors'[last'.room][d].timer = Max(0, doors[last'.room][d].timer - 1)
            /\ game_state' # MENU => door_cells_synced(grid', doors'[last'.room][d])]_vars

\* A tick in which a partial press raised the timer of a closed door to 1:
\* the door's cells hold its codes after the frame.
C13_Witness ==
    /\ FrameDone /\ game_state # MENU /\ ~last.dead
    /\ \E f \in last.frames :
        LET door == doors[last.room][f[1]]
        IN  /\ f[2] = 1
            /\ door.locations # {}
            /\ \A c \in door.locations : tile_at(grid, c[1], c[2]) = door.sprite

\* The checkpoint a death in the step restores: the one saved in this tick
\* if the tick crossed a room boundary, the one held before it if not.
checkpoint_of_tick == IF last'.saved THEN heap[live] ELSE heap[saved_state]

\* C14: a tick in which the player dies leaves the entities of all rooms as
\* the checkpoint of the most recent crossing (or of the start) holds them,
\* with the camera room's Doors.update and Buttons.update run on the restored
\* entities and its Keys.update writing the restored keys to the grid; the
\* player's dead flag is false after every tick.
C14_DeathRestoresCheckpoint ==
    [][(Playing /\ last'.op = "update") =>
        /\ ~player'.dead
        /\ last'.dead =>
            /\ heap'[live'] =
                   tick_room(Mem([i \in Ids |-> checkpoint_of_tick], 1, 1), last'.room).heap[1]
            /\ \A k \in KEYS :
                   \A c \in checkpoint_of_tick.keys[last'.room][k].locations :
                       tile_at(grid', c[1], c[2]) =
                           IF checkpoint_of_tick.keys[last'.room][k].state
                           THEN k ELSE EMPTY_TILE]_vars

\* A death tick with no save in it that leaves a button held down that the
\* tick did not press: the button is as the checkpoint of an earlier
\* crossing holds it.
C14_Witness ==
    /\ Playing /\ last.op = "update" /\ last.dead /\ ~last.saved
    /\ \E b \in BUTTONS \ last.pressed : buttons[last.room][b].state > 0

Min(a, b) == IF a <= b THEN a ELSE b

\* C16: the animation_state of every door, live or in the checkpoint, is in
\* 0..8 after every step; a tick moves that of a door of the camera room by
\* one step, toward 8 if the door's state is true and its decremented timer
\* 0, toward 0 if not, never past 0 or 8, from what it was before the tick or,
\* in a tick in which the player dies, from what the checkpoint holds; it
\* leaves that of the doors of the other rooms as it was.
C16_AnimationEases ==
    [][/\ \A i \in Ids : \A r \in DOMAIN heap'[i].doors : \A d \in TOP_DOORS :
              heap'[i].doors[r][d].animation_state \in 0..DOOR_CLOSED
       /\ (Playing /\ last'.op = "update") =>
              \A r \in DOMAIN doors' : \A d \in TOP_DOORS :
                  LET before == IF last'.dead THEN checkpoint_of_tick.doors[r][d].animation_state
                                ELSE doors[r][d].animation_state
                      after == doors'[r][d]
                  IN  after.animation_state =
                          IF r # last'.room THEN before
                          ELSE IF after.state /\ after.timer = 0
                          THEN Min(DOOR_CLOSED, before + 1)
                          ELSE Max(0, before - 1)]_vars

\* A door part of its way between open and closed after a tick.
C16_Witness ==
    /\ Playing /\ last.op = "update"
    /\ \E d \in TOP_DOORS :
        /\ doors[last.room][d].animation_state > 0
        /\ doors[last.room][d].animation_state < DOOR_CLOSED

\* C19: in every room, the timer of the door entity of a column equals the
\* state of the button entity of that column.
C19_TimerEqualsButtonState ==
    error = "none" =>
        \A r \in DOMAIN doors : \A d \in TOP_DOORS :
            doors[r][d].timer = buttons[r][<<d[1], 6>>].state

\* A tick after which a button is down and the door of its column has its
\* timer running.
C19_Witness ==
    /\ Playing /\ last.op = "update"
    /\ \E d \in TOP_DOORS :
        /\ doors[last.room][d].timer > 0
        /\ doors[last.room][d].timer < FULL_PRESS - 1
        /\ doors[last.room][d].timer = buttons[last.room][<<d[1], 6>>].state

(***************************************************************************)
(* Play in levels with room to jump and fall and with a key at a room      *)
(* boundary (SpecMove).                                                    *)
(***************************************************************************)
\* A two-room level, solid but for a chamber two cells wide and two high at
\* the room boundary (columns 15 and 16, rows 2 and 3) with a step in it: the
\* spawn at (15, 3), a wall at (16, 3).
JumpLevelCell(x, y) ==
    IF x >= 32 \/ y >= 16 THEN Outside(2, x, y)
    ELSE IF <<x, y>> = <<15, 3>> THEN <<3, 4>>
    ELSE IF <<x, y>> \in {<<15, 2>>, <<16, 2>>} THEN EMPTY_TILE
    ELSE WALL

JumpLevel == MakeGrid(JumpLevelCell, PlayH)

\* A two-room level, solid but for a corridor along row 3: the spawn (14), an
\* empty cell (15), in the second room a key (16) and an empty cell (17); the
\* key's door stands in the wall of the first room, above the corridor.
EdgeLevelCell(x, y) ==
    IF x >= 32 \/ y >= 16 THEN Outside(2, x, y)
    ELSE IF <<x, y>> = <<14, 3>> THEN <<3, 4>>
    ELSE IF <<x, y>> \in {<<15, 3>>, <<17, 3>>} THEN EMPTY_TILE
    ELSE IF <<x, y>> = <<16, 3>> THEN <<7, 4>>
    ELSE IF <<x, y>> = <<12, 0>> THEN <<4, 4>>
    ELSE IF <<x, y>> = <<12, 1>> THEN <<4, 5>>
    ELSE WALL

EdgeLevel == MakeGrid(EdgeLevelCell, PlayH)

MoveLevels == {JumpLevel, EdgeLevel}

InitMove == \E g \in MoveLevels : InitApp(g)

NextMove ==
    \/ Start
    \/ \E in \in Inputs : Update(in)

SpecMove == InitMove /\ [][NextMove]_vars

\* C15: at the start of every tick, whatever the inputs, update_position moves
\* a player with jumping 0 and no collider under either foot down by exactly 2
\* and leaves jumping 0, sets jumping to 12 only with a collider under a foot,
\* and never applies both the fall and the rise; the player after a tick
\* without death is as update_position leaves it.
C15_FallOrRise ==
    [][(Playing /\ last'.op = "update" /\ error' = "none") =>
        /\ \A in \in Inputs :
            LET a == fall_or_jump(grid, player, in)
                q == update_position(grid, player, in)
            IN  /\ (player.jumping = 0 /\ no_ground(grid, player))
                       => (q.y = player.y + 2 /\ q.jumping = 0)
                /\ (a.jumping = JUMP_TICKS /\ player.jumping # JUMP_TICKS)
                       => ~no_ground(grid, player)
                /\ ~(a.y = player.y + 2 /\ q.y = a.y - 2)
        /\ ~last'.dead =>
            /\ (player.jumping = 0 /\ no_ground(grid, player))
                   => (player'.y = player.y + 2 /\ player'.jumping = 0)
            /\ player'.jumping > player.jumping => ~no_ground(grid, player)
            /\ player'.y \in {player.y - 2, player.y, player.y + 2}
            /\ player'.y = player.y - 2 => player.jumping > 0 \/ ~no_ground(grid, player)]_vars

\* A tick has let the player fall: it is between two rows with jumping 0.
C15_Witness ==
    /\ Playing /\ last.op = "update" /\ ~last.dead
    /\ player.jumping = 0
    /\ player.y % 8 # 0

\* C17: while the game is played, none of the four tiles under the corners of
\* the player's box is a wall.
C17_NeverInsideWall ==
    (Playing /\ last.op \in {"start", "update"}) =>
        \A i \in 1..4 : corners(grid, player)[i] \notin WALLS

\* C18: in a tick without death, every key or button tile under a corner of
\* the player lies in the room whose entities the tick interacts with, and is
\* one of the locations of that room's entity of the tile's code.
C18_TouchedCellOwned ==
    [][(Playing /\ last'.op = "update" /\ error' = "none" /\ ~last'.dead) =>
        \A c \in corner_cells(player') :
            LET t == tile_at(grid, c[1], c[2])
            IN  /\ t \in KEYS =>
                    /\ FloorDiv(c[1], ROOM_TILES) = last'.room
                    /\ c \in keys'[last'.room][t].locations
                /\ t \in BUTTONS =>
                    /\ FloorDiv(c[1], ROOM_TILES) = last'.room
                    /\ c \in buttons'[last'.room][t].locations]_vars

(***************************************************************************)
(* Sessions on one level, one after another (SpecRestart).                 *)
(***************************************************************************)
InitRestart == InitApp(KeyLevel)

Restart == StartWithin(MaxRestarts)

NextRestart ==
    \/ Restart
    \/ \E in \in Inputs : Update(in)
    \/ \E return \in BOOLEAN : UpdateEnd(return)

SpecRestart == InitRestart /\ [][NextRestart]_vars

\* What the first start of KeyLevel finds.
FirstStart == Scan(KeyLevel, <<0, 0>>)

\* C20: every start on the level succeeds and gives the room count, the spawn
\* and the key, button and door locations of the first start.
C20_RestartIdempotent ==
    last.op = "start" =>
        /\ error = "none"
        /\ nrooms = get_nrooms(KeyLevel)
        /\ spawn = FirstStart.spawn
        /\ \A r \in DOMAIN FirstStart.keys :
            /\ \A k \in KEYS : keys[r][k].locations = FirstStart.keys[r][k].locations
            /\ \A b \in BUTTONS :
                   buttons[r][b].locations = FirstStart.buttons[r][b].locations
            /\ \A d \in TOP_DOORS : doors[r][d].locations = FirstStart.doors[r][d].locations

\* C21: a tick in which the player does not die leaves the keys, buttons and
\* doors of every room other than the tick's camera room as they were.
C21_OtherRoomsUnchanged ==
    [][(Playing /\ last'.op = "update" /\ ~last'.dead) =>
        \A r \in DOMAIN keys : r # last'.room =>
            /\ keys'[r] = keys[r]
            /\ buttons'[r] = buttons[r]
            /\ doors'[r] = doors[r]]_vars

\* A tick without death in one room while a button of another room is down
\* and the door of its column has its timer running.
C21_Witness ==
    /\ Playing /\ last.op = "update" /\ ~last.dead
    /\ \E r \in DOMAIN buttons : \E d \in TOP_DOORS :
        /\ r # last.room
        /\ buttons[r][<<d[1], 6>>].state > 0
        /\ doors[r][d].timer > 0

====
